---- MODULE Spec2Model ----
(* Model of the auth_service request handlers: AuthHandler.Login and        *)
(* AuthHandler.GetUserProfile, in the two copies the repository holds       *)
(* (internal/handler/auth.go, "internal", and the older copy, "legacy").    *)
(* The users table, the clock and the request contexts are the environment. *)
EXTENDS Integers, FiniteSets, Sequences, TLC

\* ---------------------------------------------------------------- bounds
MaxTime == 3
MaxIssued == 2

\* ------------------------------------------------------- configuration
ValidityDuration == 2
Secret == "k1"

Impls == {"internal", "legacy"}

\* ------------------------------------------------------------- errors
\* A Go error as the caller sees it: its own text and the text of the error
\* it wraps with %w ("none" when it wraps nothing).
E(msg, wrapped) == [msg |-> msg, wrapped |-> wrapped]
Nil == E("nil", "none")

ErrInvalidCredentials == E("invalid username or password", "none")
ErrInvalidToken == E("invalid or expired token", "none")
ErrMissingMetadata == E("missing metadata", "none")
ErrNoAuthToken == E("authorization token not provided", "none")
ErrInvalidTokenClaims == E("invalid token claims", "none")

\* Errors of the collaborators.
SqlErrNoRows == "sql: no rows in result set"
CtxCanceled == "context canceled"
StoreFaults == {"dial tcp: connection refused", "pq: too many connections"}
SignFaults == {"key is of invalid type", "key is invalid"}
TokenInvalid == "token signature is invalid"
TokenMalformed == "token is malformed"
TokenExpired == "token is expired"

\* -------------------------------------------------------- users table
\* bcrypt digest of a password: salted one-way value, compared only by
\* CompareHashAndPassword.
Bcrypt(p) == [alg |-> "bcrypt", of |-> p]
NoHash == [alg |-> "none", of |-> ""]

Users == {"alice", "bob"}
Usernames == Users \cup {"ghost"}
Passwords == {"pwA", "pwB"}
UserRow(u) ==
  IF u = "alice" THEN [id |-> "id1", username |-> "alice", password |-> Bcrypt("pwA")]
  ELSE [id |-> "id2", username |-> "bob", password |-> Bcrypt("pwB")]
NoRow == [id |-> "", username |-> "", password |-> NoHash]
AllRows == {UserRow(u) : u \in Users}

\* bcrypt.CompareHashAndPassword: nil iff the digest is a bcrypt digest of
\* this password.
CompareHashAndPassword(hashed, password) ==
  hashed.alg = "bcrypt" /\ hashed.of = password

\* --------------------------------------------------------------- tokens
StringClaim(s) == [typ |-> "string", val |-> s]
NumberClaim == [typ |-> "number", val |-> "7"]
AbsentClaim == [typ |-> "absent", val |-> ""]

Claims(uid, iat, exp) == [user_id |-> uid, iat |-> iat, exp |-> exp]
NoClaims == Claims(AbsentClaim, 0, 0)
Sign(key, claims) == [key |-> key, over |-> claims]
Jwt(claims, sig) == [form |-> "jwt", claims |-> claims, sig |-> sig]
Garbage == [form |-> "garbage", claims |-> NoClaims, sig |-> Sign("none", NoClaims)]
EmptyString == [form |-> "empty", claims |-> NoClaims, sig |-> Sign("none", NoClaims)]

\* JWTManager.Generate: claims {subject, issued_at = now, expires_at = now +
\* validity}, signed with the secret.
JWTGenerate(subject, t) ==
  LET c == Claims(StringClaim(subject), t, t + ValidityDuration)
  IN Jwt(c, Sign(Secret, c))

\* The value of the authorization metadata entry: a token string, possibly
\* behind a "Bearer " prefix.
Raw(tok) == [prefix |-> "", tok |-> tok]
Bearer(tok) == [prefix |-> "Bearer ", tok |-> tok]

\* JWTManager.Verify: parse, then signature against the secret, then
\* expires_at > now.
JWTVerify(value, t) ==
  IF value.prefix # "" \/ value.tok.form # "jwt"
    THEN [err |-> TokenMalformed, valid |-> FALSE, mapClaims |-> TRUE, claims |-> NoClaims]
  ELSE IF value.tok.sig # Sign(Secret, value.tok.claims)
    THEN [err |-> TokenInvalid, valid |-> FALSE, mapClaims |-> TRUE, claims |-> NoClaims]
  ELSE IF ~(value.tok.claims.exp > t)
    THEN [err |-> TokenExpired, valid |-> FALSE, mapClaims |-> TRUE, claims |-> NoClaims]
  ELSE [err |-> "none", valid |-> TRUE, mapClaims |-> TRUE, claims |-> value.tok.claims]

\* Tokens a caller can present without having logged in: unparsable text, a
\* token signed with another key, a token whose payload was altered after
\* signing, and tokens signed with the secret whose user_id claim is not a
\* string (minted by another holder of the secret).
FarExp == MaxTime + 1
WrongKeyToken ==
  LET c == Claims(StringClaim("id1"), 0, FarExp) IN Jwt(c, Sign("k2", c))
TamperedToken ==
  Jwt(Claims(StringClaim("id2"), 0, FarExp), Sign(Secret, Claims(StringClaim("id1"), 0, FarExp)))
NoSubjectToken ==
  LET c == Claims(AbsentClaim, 0, FarExp) IN Jwt(c, Sign(Secret, c))
NumberSubjectToken ==
  LET c == Claims(NumberClaim, 0, FarExp) IN Jwt(c, Sign(Secret, c))
ForeignTokens == {Garbage, WrongKeyToken, TamperedToken, NoSubjectToken, NumberSubjectToken}

\* ------------------------------------------------------------- metadata
NoMetadata == [present |-> FALSE, authorization |-> << >>]
Metadata(values) == [present |-> TRUE, authorization |-> values]


\* ------------------------------------------------------------ responses
NoResp == [kind |-> "nil", accessToken |-> EmptyString, userId |-> "", username |-> ""]
LoginResponse(token) ==
  [kind |-> "LoginResponse", accessToken |-> token, userId |-> "", username |-> ""]
\* The profile response with its two fields exchanged.
GetUserProfileResponseSwapped(userID, username) ==
  [kind |-> "GetUserProfileResponse", accessToken |-> EmptyString,
   userId |-> username, username |-> userID]

GetUserProfileResponse(userID, username) ==
  [kind |-> "GetUserProfileResponse", accessToken |-> EmptyString,
   userId |-> userID, username |-> username]

\* ------------------------------------------------- the handler's helpers
\* h.db.QueryRowContext(ctx, query, key).Scan(...) in the internal copy,
\* h.db.QueryRow(query, key).Scan(...) in the legacy copy: the legacy call
\* runs under the background context, so the caller's context is not seen.
\* rows are the rows of the table that match the key; fault is the failure
\* the database raises for this query ("none" when it answers).
QueryRowScan(i, ctx, fault, rows) ==
  IF i = "internal" /\ ctx = "done" THEN [err |-> CtxCanceled, row |-> NoRow]
  ELSE IF fault # "none" THEN [err |-> fault, row |-> NoRow]
  ELSE IF rows = {} THEN [err |-> SqlErrNoRows, row |-> NoRow]
  ELSE [err |-> "none", row |-> CHOOSE r \in rows : TRUE]

ByUsername(table, name) == {r \in table : r.username = name}
ByID(table, id) == {r \in table : r.id = id}

\* checkPassword with the comparison's error dropped.
checkPasswordUnchecked(i, hashedPassword, password) == Nil

checkPassword(i, hashedPassword, password) ==
  IF CompareHashAndPassword(hashedPassword, password) THEN Nil
  ELSE IF i = "internal" THEN ErrInvalidCredentials
  ELSE E("invalid credentials", "none")

loginLookupError(i, dberr) ==
  IF i = "internal" THEN ErrInvalidCredentials
  ELSE E("invalid username or password", dberr)

generateError(i, signerr) == E("failed to generate token", signerr)

\* validateToken letting an expired token through.
validateTokenPastExpiry(i, tokenString, t) ==
  LET v == JWTVerify(tokenString, t)
      w == JWTVerify(tokenString, -1)
  IN IF v.err = TokenExpired THEN [token |-> w, err |-> Nil]
     ELSE IF v.err # "none"
       THEN [token |-> v, err |-> IF i = "internal" THEN ErrInvalidToken
                                  ELSE E("invalid or expired token", v.err)]
     ELSE [token |-> v, err |-> Nil]

\* validateToken handing the verifier's error to the caller as it is.
validateTokenPropagating(i, tokenString, t) ==
  LET v == JWTVerify(tokenString, t)
  IN IF v.err # "none" THEN [token |-> v, err |-> E(v.err, "none")]
     ELSE [token |-> v, err |-> Nil]

validateToken(i, tokenString, t) ==
  LET v == JWTVerify(tokenString, t)
  IN IF v.err # "none"
       THEN [token |-> v, err |-> IF i = "internal" THEN ErrInvalidToken
                                  ELSE E("invalid or expired token", v.err)]
       ELSE [token |-> v, err |-> Nil]

\* extractTokenFromMetadata taking a request without a token as one with an
\* empty token.
extractTokenOrEmpty(i, md) ==
  IF ~md.present \/ Len(md.authorization) = 0 THEN [value |-> Raw(EmptyString), err |-> Nil]
  ELSE [value |-> md.authorization[1], err |-> Nil]

extractTokenFromMetadata(i, md) ==
  IF ~md.present THEN [value |-> Raw(EmptyString), err |-> ErrMissingMetadata]
  ELSE IF Len(md.authorization) = 0 THEN [value |-> Raw(EmptyString), err |-> ErrNoAuthToken]
  ELSE [value |-> md.authorization[1], err |-> Nil]

\* The user_id type assertion without its ok check: the zero value is used.
claimUserIDUnchecked(i, token) ==
  IF token.claims.user_id.typ # "string" THEN [userID |-> "", err |-> Nil]
  ELSE [userID |-> token.claims.user_id.val, err |-> Nil]

\* claims, ok := token.Claims.(jwt.MapClaims); userID, ok := claims["user_id"].(string)
claimUserID(i, token) ==
  IF ~token.mapClaims \/ ~token.valid
    THEN [userID |-> "", err |-> ErrInvalidTokenClaims]
  ELSE IF token.claims.user_id.typ # "string"
    THEN [userID |-> "", err |-> IF i = "internal" THEN ErrInvalidTokenClaims
                                 ELSE E("user_id claim not found in token", "none")]
  ELSE [userID |-> token.claims.user_id.val, err |-> Nil]

profileLookupError(i, dberr) ==
  IF i = "internal" THEN E("failed to retrieve user profile", dberr)
  ELSE E("failed to get user profile", dberr)

\* ------------------------------------------------------------------ state
VARIABLES
  impl,     \* which copy of the handler serves the requests
  handler,  \* the AuthHandler value: db handle and JWT manager
  users,    \* rows of the users table
  now,      \* the clock
  call,     \* per request slot: inputs, position, context, result
  frame,    \* per request slot: the handler's local variables
  issued    \* tokens returned by successful Login calls

vars == <<impl, handler, users, now, call, frame, issued>>

NewAuthHandler ==
  [db |-> "db", jwtManager |-> [secret |-> Secret, duration |-> ValidityDuration]]

EmptyFrame == [userID |-> "", hashedPassword |-> NoHash]

IdleCall ==
  [op |-> "idle", pc |-> "idle", username |-> "", password |-> "",
   md |-> NoMetadata, ctx |-> "live",
   \* what the request observed, kept for the properties
   lookups |-> 0, lookupKey |-> "", ctxAtLookup |-> "live", fault |-> "none",
   sawUsers |-> {}, signFault |-> "none", verifiedAt |-> -1, tokenOK |-> FALSE,
   generatedAt |-> -1,
   \* result
   resp |-> NoResp, err |-> Nil]

\* The locals kept in one place for all requests (a field of the handler).
LocalsShared(r) == 1

\* The slot that holds the locals of request r: each request has its own.
LocalsOf(r) == r

Init ==
  /\ impl \in Impls
  /\ handler = NewAuthHandler
  /\ users = AllRows
  /\ now = 0
  /\ call = [r \in {1} |-> IdleCall]
  /\ frame = [r \in {1} |-> EmptyFrame]
  /\ issued = {}

Done(c, resp, err) == [c EXCEPT !.pc = "done", !.resp = resp, !.err = err]

InFlightLogins == Cardinality({r \in DOMAIN call : call[r].op = "Login" /\ call[r].pc # "done"})

\* ------------------------------------------------------------------ Login
StartLogin(r, username, password) ==
  /\ call[r].op = "idle"
  /\ Cardinality(issued) + InFlightLogins < MaxIssued
  /\ call' = [call EXCEPT ![r] = [IdleCall EXCEPT !.op = "Login", !.pc = "lookup",
                                   !.username = username, !.password = password]]
  /\ UNCHANGED <<impl, handler, users, now, frame, issued>>

\* auth.go 58-66: the credential lookup by username.
LoginLookup(r, fault) ==
  /\ call[r].op = "Login" /\ call[r].pc = "lookup"
  /\ LET c == call[r]
         q == QueryRowScan(impl, c.ctx, fault, ByUsername(users, c.username))
         seen == [c EXCEPT !.lookups = @ + 1, !.lookupKey = c.username,
                           !.ctxAtLookup = c.ctx, !.fault = fault, !.sawUsers = users]
     IN IF q.err # "none"
          THEN /\ call' = [call EXCEPT ![r] = Done(seen, NoResp, loginLookupError(impl, q.err))]
               /\ UNCHANGED frame
          ELSE /\ call' = [call EXCEPT ![r] = [seen EXCEPT !.pc = "check"]]
               /\ frame' = [frame EXCEPT ![LocalsOf(r)] =
                              [userID |-> q.row.id, hashedPassword |-> q.row.password]]
  /\ UNCHANGED <<impl, handler, users, now, issued>>

\* auth.go 68-80: password check, token generation, response.
LoginFinish(r, signFault) ==
  /\ call[r].op = "Login" /\ call[r].pc = "check"
  /\ LET c == call[r]
         f == frame[LocalsOf(r)]
         e == checkPassword(impl, f.hashedPassword, c.password)
     IN IF e # Nil
          THEN /\ call' = [call EXCEPT ![r] = Done(c, NoResp, e)]
               /\ UNCHANGED issued
          ELSE IF signFault # "none"
            THEN /\ call' = [call EXCEPT ![r] =
                       Done([c EXCEPT !.signFault = signFault, !.generatedAt = now],
                            NoResp, generateError(impl, signFault))]
                 /\ UNCHANGED issued
            ELSE /\ call' = [call EXCEPT ![r] =
                       Done([c EXCEPT !.generatedAt = now],
                            LoginResponse(JWTGenerate(f.userID, now)), Nil)]
                 /\ issued' = issued \cup {JWTGenerate(f.userID, now)}
  /\ UNCHANGED <<impl, handler, users, now, frame>>

\* --------------------------------------------------------- GetUserProfile
MetadataInputs ==
  {NoMetadata, Metadata(<< >>), Metadata(<<Raw(EmptyString)>>)}
    \cup {Metadata(<<Raw(t)>>) : t \in issued \cup ForeignTokens}
    \cup {Metadata(<<Bearer(t)>>) : t \in issued}

StartGetUserProfile(r, md) ==
  /\ call[r].op = "idle"
  /\ call' = [call EXCEPT ![r] = [IdleCall EXCEPT !.op = "GetUserProfile",
                                   !.pc = "verify", !.md = md]]
  /\ UNCHANGED <<impl, handler, users, now, frame, issued>>

\* auth.go 110-130: token from the metadata, verification, user_id claim.
GetUserProfileVerify(r) ==
  /\ call[r].op = "GetUserProfile" /\ call[r].pc = "verify"
  /\ LET c == call[r]
         x == extractTokenFromMetadata(impl, c.md)
         v == validateToken(impl, x.value, now)
         seen == [c EXCEPT !.verifiedAt = now, !.tokenOK = (v.err = Nil)]
         u == claimUserID(impl, v.token)
     IN IF x.err # Nil
          THEN /\ call' = [call EXCEPT ![r] = Done(c, NoResp, x.err)]
               /\ UNCHANGED frame
        ELSE IF v.err # Nil
          THEN /\ call' = [call EXCEPT ![r] = Done(seen, NoResp, v.err)]
               /\ UNCHANGED frame
        ELSE IF u.err # Nil
          THEN /\ call' = [call EXCEPT ![r] = Done(seen, NoResp, u.err)]
               /\ UNCHANGED frame
        ELSE /\ call' = [call EXCEPT ![r] = [seen EXCEPT !.pc = "query"]]
             /\ frame' = [frame EXCEPT ![LocalsOf(r)] =
                            [userID |-> u.userID, hashedPassword |-> NoHash]]
  /\ UNCHANGED <<impl, handler, users, now, issued>>

\* auth.go 132-139: the profile lookup by user id, response.
GetUserProfileQuery(r, fault) ==
  /\ call[r].op = "GetUserProfile" /\ call[r].pc = "query"
  /\ LET c == call[r]
         f == frame[LocalsOf(r)]
         q == QueryRowScan(impl, c.ctx, fault, ByID(users, f.userID))
         seen == [c EXCEPT !.lookups = @ + 1, !.lookupKey = f.userID,
                           !.ctxAtLookup = c.ctx, !.fault = fault, !.sawUsers = users]
     IN IF q.err # "none"
          THEN call' = [call EXCEPT ![r] = Done(seen, NoResp, profileLookupError(impl, q.err))]
          ELSE call' = [call EXCEPT ![r] =
                  Done(seen, GetUserProfileResponse(f.userID, q.row.username), Nil)]
  /\ UNCHANGED <<impl, handler, users, now, frame, issued>>

\* The response has been delivered: the slot and its locals are free again.
Respond(r) ==
  /\ call[r].pc = "done"
  /\ call' = [call EXCEPT ![r] = IdleCall]
  /\ frame' = [frame EXCEPT ![r] = EmptyFrame]
  /\ UNCHANGED <<impl, handler, users, now, issued>>

\* ------------------------------------------------------------ environment
Tick ==
  /\ now < MaxTime
  /\ now' = now + 1
  /\ UNCHANGED <<impl, handler, users, call, frame, issued>>

\* An administrator removes a user.
DeleteUser(u) ==
  /\ UserRow(u) \in users
  /\ users' = users \ {UserRow(u)}
  /\ UNCHANGED <<impl, handler, now, call, frame, issued>>

\* The caller cancels a request in flight (or its deadline passes).
CancelContext(r) ==
  /\ call[r].op # "idle" /\ call[r].pc # "done" /\ call[r].ctx = "live"
  /\ call' = [call EXCEPT ![r].ctx = "done"]
  /\ UNCHANGED <<impl, handler, users, now, frame, issued>>

Next ==
  \/ \E r \in DOMAIN call, u \in Usernames, p \in Passwords : StartLogin(r, u, p)
  \/ \E r \in DOMAIN call, fault \in {"none"} \cup StoreFaults : LoginLookup(r, fault)
  \/ \E r \in DOMAIN call, sf \in {"none"} \cup SignFaults : LoginFinish(r, sf)
  \/ \E r \in DOMAIN call, md \in MetadataInputs : StartGetUserProfile(r, md)
  \/ \E r \in DOMAIN call : GetUserProfileVerify(r)
  \/ \E r \in DOMAIN call, fault \in {"none"} \cup StoreFaults : GetUserProfileQuery(r, fault)
  \/ \E r \in DOMAIN call : Respond(r)
  \/ \E r \in DOMAIN call : CancelContext(r)
  \/ \E u \in Users : DeleteUser(u)
  \/ Tick

Spec == Init /\ [][Next]_vars

\* Several requests in flight on one handler, their steps interleaved.
ConcSlots == {1, 2}
InitConc ==
  /\ impl \in Impls
  /\ handler = NewAuthHandler
  /\ users = AllRows
  /\ now = 0
  /\ call = [r \in ConcSlots |-> IdleCall]
  /\ frame = [r \in ConcSlots |-> EmptyFrame]
  /\ issued = {}

NextConc ==
  \/ \E r \in DOMAIN call, u \in Users, p \in Passwords : StartLogin(r, u, p)
  \/ \E r \in DOMAIN call : LoginLookup(r, "none")
  \/ \E r \in DOMAIN call : LoginFinish(r, "none")
  \/ \E r \in DOMAIN call, t \in issued : StartGetUserProfile(r, Metadata(<<Raw(t)>>))
  \/ \E r \in DOMAIN call : GetUserProfileVerify(r)
  \/ \E r \in DOMAIN call : GetUserProfileQuery(r, "none")
  \/ \E r \in DOMAIN call : Respond(r)
  \/ DeleteUser("alice")
  \/ Tick

ConcSpec == InitConc /\ [][NextConc]_vars


\* ------------------------------------------- a request run on its own
\* Login as one function of its inputs and of what the collaborators
\* answered: the table at the lookup, the context at the lookup, the
\* database fault, the signing fault, the clock at Generate.
LoginAlone(i, c) ==
  LET q == QueryRowScan(i, c.ctxAtLookup, c.fault, ByUsername(c.sawUsers, c.username))
      e == checkPassword(i, q.row.password, c.password)
  IN IF q.err # "none" THEN <<NoResp, loginLookupError(i, q.err)>>
     ELSE IF e # Nil THEN <<NoResp, e>>
     ELSE IF c.signFault # "none" THEN <<NoResp, generateError(i, c.signFault)>>
     ELSE <<LoginResponse(JWTGenerate(q.row.id, c.generatedAt)), Nil>>

GetUserProfileAlone(i, c) ==
  LET x == extractTokenFromMetadata(i, c.md)
      v == validateToken(i, x.value, c.verifiedAt)
      u == claimUserID(i, v.token)
      q == QueryRowScan(i, c.ctxAtLookup, c.fault, ByID(c.sawUsers, u.userID))
  IN IF x.err # Nil THEN <<NoResp, x.err>>
     ELSE IF v.err # Nil THEN <<NoResp, v.err>>
     ELSE IF u.err # Nil THEN <<NoResp, u.err>>
     ELSE IF q.err # "none" THEN <<NoResp, profileLookupError(i, q.err)>>
     ELSE <<GetUserProfileResponse(u.userID, q.row.username), Nil>>

\* ------------------------------------------------------------ properties
LoginDone(r) == call[r].op = "Login" /\ call[r].pc = "done"
ProfileDone(r) == call[r].op = "GetUserProfile" /\ call[r].pc = "done"
Presented(c) == c.md.authorization[1]

\* The signature of the presented value verifies against the handler's secret.
SignatureVerifies(value) ==
  /\ value.prefix = "" /\ value.tok.form = "jwt"
  /\ value.tok.sig = Sign(handler.jwtManager.secret, value.tok.claims)

IsClaimsMalformed(err) ==
  err \in {ErrInvalidTokenClaims, E("user_id claim not found in token", "none")}

\* C1: Login returns a token only when its lookup by the requested username
\* found a credential and the supplied password verifies against that
\* credential's hash; the token carries that credential's id; an error is
\* never accompanied by a token.
C1_TokenOnlyForVerifiedCredential ==
  \A r \in DOMAIN call : LoginDone(r) =>
    LET c == call[r]
        rows == ByUsername(c.sawUsers, c.username)
    IN /\ c.resp # NoResp =>
            /\ c.err = Nil
            /\ c.resp.kind = "LoginResponse"
            /\ c.lookups = 1 /\ c.lookupKey = c.username /\ c.fault = "none"
            /\ \E row \in rows :
                 /\ CompareHashAndPassword(row.password, c.password)
                 /\ c.resp = LoginResponse(JWTGenerate(row.id, c.generatedAt))
                 /\ c.resp.accessToken.claims.user_id = StringClaim(row.id)
       /\ c.err # Nil => c.resp = NoResp
       /\ (c.err = Nil) # (c.resp = NoResp)

C1_Witness ==
  \E r \in DOMAIN call :
    /\ LoginDone(r) /\ call[r].username = "bob"
    /\ call[r].resp = LoginResponse(JWTGenerate("id2", call[r].generatedAt))

\* C2: verification accepts a presented token exactly when its signature
\* verifies against the secret and the clock is strictly before expires_at;
\* an issued token is rejected from issued_at + validity on, and a token
\* rejected now is rejected after every later step.
Accepts(t, n) == validateToken(impl, Raw(t), n).err = Nil

C3_OneInvalidCredentialsValue ==
  \A r \in DOMAIN call :
    (LoginDone(r) /\ call[r].err # Nil /\ call[r].signFault = "none")
      => call[r].err = ErrInvalidCredentials

\* C4 (as claimed): a well-signed token presented after its validity window
\* is refused with an error that differs from the one a badly signed or an
\* unparsable token gets at the same moment.
ExpiredPresented(c) ==
  /\ c.verifiedAt >= 0
  /\ SignatureVerifies(Presented(c))
  /\ ~(c.verifiedAt < Presented(c).tok.claims.exp)

RoundTrip(c, row) ==
  /\ c.md.present /\ Len(c.md.authorization) > 0
  /\ Presented(c).prefix = "" /\ Presented(c).tok \in issued
  /\ Presented(c).tok = JWTGenerate(row.id, Presented(c).tok.claims.iat)
  /\ c.verifiedAt >= 0 /\ c.verifiedAt < Presented(c).tok.claims.iat + ValidityDuration
  /\ c.lookups > 0 /\ row \in c.sawUsers

LookupFailed(c) ==
  QueryRowScan(impl, c.ctxAtLookup, c.fault, AllRows).err # "none"

C8_NoInternalDetailInError ==
  \A r \in DOMAIN call : call[r].pc = "done" =>
    call[r].err.wrapped \notin StoreFaults \cup SignFaults

\* C10 (as claimed): a request makes at most one store lookup; a lookup made
\* when the caller's context is already cancelled fails the request without
\* a token or profile; cancellation reaches the result through the lookup
\* only.
C10_CancelledLookupFails ==
  \A r \in DOMAIN call :
    /\ call[r].lookups <= 1
    /\ call[r].err.wrapped = CtxCanceled => call[r].ctxAtLookup = "done"
    /\ (call[r].pc = "done" /\ call[r].lookups = 1 /\ call[r].ctxAtLookup = "done") =>
         (call[r].err # Nil /\ call[r].resp = NoResp)

\* C9: requests in flight together share no mutable state. A step of one
\* request writes that request's record and locals only, never the handler
\* (with its secret), never the users table; and whatever the interleaving,
\* a finished request has the result it has when run on its own against the
\* table and the clock it saw.
C9_RequestsIndependent ==
  /\ [](\A r \in DOMAIN call :
          /\ LoginDone(r) => <<call[r].resp, call[r].err>> = LoginAlone(impl, call[r])
          /\ ProfileDone(r) => <<call[r].resp, call[r].err>> = GetUserProfileAlone(impl, call[r]))
  /\ [][/\ handler' = handler
        /\ (call' # call \/ frame' # frame) => users' = users
        /\ Cardinality({r \in DOMAIN call : call'[r] # call[r]}) <= 1
        /\ \A r \in DOMAIN call : frame'[r] # frame[r] => call'[r] # call[r]]_vars

C9_Witness ==
  /\ call[1].op = "Login" /\ call[1].pc = "check" /\ call[1].username = "alice"
  /\ LoginDone(2) /\ call[2].username = "bob" /\ call[2].resp # NoResp
  /\ call[2].lookups = 1 /\ call[1].lookups = 1

====
